---- MODULE Spec2Model ----
(***************************************************************************)
(* A model of the terminal text-reflow engine of TerminalAI.py:            *)
(* wrap_text_for_terminal and the width resolution it shares with          *)
(* format_markdown_for_terminal.                                           *)
(*                                                                         *)
(* A Python str is a sequence of one-character tokens.  TLA+ strings are   *)
(* ASCII, so the box-drawing characters are the tokens "u2502" (the        *)
(* vertical bar), "u2500", "u250c", "u2510", "u2514" and "u2518", and the  *)
(* backquote is the token "backtick".                                      *)
(* A call's outcome is a record: raised says whether the call ended in an  *)
(* exception (textwrap's ValueError), s is the returned str.               *)
(*                                                                         *)
(* Four specifications share the variables: Spec calls the engine on one   *)
(* text, PairSpec on two texts and on the two joined by a blank line,      *)
(* SanitizeSpec calls sanitize_conversation_history, and ChatSpec is       *)
(* start_chat: the main menu, the pull page, a chat session with its       *)
(* streamed replies, and save_chat_session.                                *)
(***************************************************************************)
EXTENDS Integers, Sequences, FiniteSets, TLC

VARIABLES text, width, terminal_width, caller, arg, out, out2, pc

\* two texts and the outcomes of wrap_text_for_terminal for each of them
VARIABLES A, B, outA, outB

\* start_chat: the models listed, the model chosen, the conversation, what
\* was sent to the model, the response buffer, the chunks the stream has
\* yielded so far in this reply, what the display shows and the stored sessions
VARIABLES models, selected_model, conversation_history, sanitized_history,
          full_response, stream, live, past_chats

pairVars == <<A, B, outA, outB>>

chatVars == <<models, selected_model, conversation_history, sanitized_history,
              full_response, stream, live, past_chats>>

vars == <<text, width, terminal_width, caller, arg, out, out2, pc, pairVars, chatVars>>

-----------------------------------------------------------------------------
(* Characters *)

SP == " "
TAB == "\t"
NL == "\n"
HY == "-"
BT == "backtick"
VBAR == "u2502"

IsLetter(c) == c \in {"a", "b", "c", "x"}

IsSpace(c) == c \in {SP, TAB, NL}

-----------------------------------------------------------------------------
(* The str methods the engine uses *)

Min(a, b) == IF a < b THEN a ELSE b

Max(a, b) == IF a > b THEN a ELSE b

\* s[lo:hi] for 0 <= lo, 0 <= hi (0-based, hi exclusive, clipped to the string)
Slice(s, lo, hi) == SubSeq(s, lo + 1, Min(hi, Len(s)))

\* s[:n], n of either sign
SliceTo(s, n) == IF n >= 0 THEN Slice(s, 0, n) ELSE Slice(s, 0, Max(Len(s) + n, 0))

\* s[n:], n of either sign
SliceFrom(s, n) == IF n >= 0 THEN Slice(s, n, Len(s)) ELSE Slice(s, Max(Len(s) + n, 0), Len(s))

RECURSIVE Concat(_)
Concat(ss) == IF ss = <<>> THEN <<>> ELSE Head(ss) \o Concat(Tail(ss))

RECURSIVE Join(_, _)
Join(ss, sep) ==
    IF ss = <<>> THEN <<>>
    ELSE IF Len(ss) = 1 THEN ss[1]
    ELSE ss[1] \o sep \o Join(Tail(ss), sep)

Contains(s, c) == \E i \in 1..Len(s) : s[i] = c

StartsWith(s, p) == Len(s) >= Len(p) /\ SubSeq(s, 1, Len(p)) = p

\* the least i in lo..hi with P(i), or hi + 1 when there is none
First(lo, hi, P(_)) ==
    IF lo > hi THEN hi + 1
    ELSE CHOOSE i \in lo..(hi + 1) : (i = hi + 1 \/ P(i)) /\ \A j \in lo..(i - 1) : ~P(j)

\* the greatest i in lo..hi with P(i), or lo - 1 when there is none
Last(lo, hi, P(_)) ==
    IF lo > hi THEN lo - 1
    ELSE CHOOSE i \in (lo - 1)..hi : (i = lo - 1 \/ P(i)) /\ \A j \in (i + 1)..hi : ~P(j)

\* s.split(c) for a one-character separator
RECURSIVE SplitFrom(_, _, _)
SplitAt(s, c, start, p) ==
    IF p > Len(s) THEN <<SubSeq(s, start, Len(s))>>
    ELSE <<SubSeq(s, start, p - 1)>> \o SplitFrom(s, c, p + 1)

SplitFrom(s, c, start) ==
    LET IsSep(i) == s[i] = c
    IN  SplitAt(s, c, start, First(start, Len(s), IsSep))

Split(s, c) == SplitFrom(s, c, 1)

\* s.split('\n\n'): separators are found left to right and do not overlap
RECURSIVE SplitParaFrom(_, _)
SplitParaAt(s, start, p) ==
    IF p > Len(s) - 1 THEN <<SubSeq(s, start, Len(s))>>
    ELSE <<SubSeq(s, start, p - 1)>> \o SplitParaFrom(s, p + 2)

SplitParaFrom(s, start) ==
    LET IsSep(i) == s[i] = NL /\ s[i + 1] = NL
    IN  SplitParaAt(s, start, First(start, Len(s) - 1, IsSep))

SplitParagraphs(s) == SplitParaFrom(s, 1)

\* number of leading whitespace characters: len(s) - len(s.lstrip())
LeadingSpace(s) ==
    LET NotSpace(i) == ~IsSpace(s[i])
    IN  First(1, Len(s), NotSpace) - 1

TrailingSpace(s) ==
    LET NotSpace(i) == ~IsSpace(s[i])
    IN  Len(s) - Last(1, Len(s), NotSpace)

LStrip(s) == SubSeq(s, LeadingSpace(s) + 1, Len(s))

Strip(s) == SubSeq(s, LeadingSpace(s) + 1, Len(s) - TrailingSpace(s))

IsBlank(s) == \A i \in 1..Len(s) : IsSpace(s[i])

-----------------------------------------------------------------------------
(* textwrap.fill(text, width, break_long_words=True, break_on_hyphens=True) *)

\* str.expandtabs(): a tab advances to the next multiple of 8 columns, a
\* newline resets the column, any other character takes one column
RECURSIVE ExpandTabs(_, _, _)
ExpandAt(s, i, p, c) ==
    IF p > Len(s) THEN SubSeq(s, i, Len(s))
    ELSE IF s[p] = TAB
         THEN SubSeq(s, i, p - 1) \o [k \in 1..(8 - (c % 8)) |-> SP]
              \o ExpandTabs(s, p + 1, c + 8 - (c % 8))
    ELSE SubSeq(s, i, p) \o ExpandTabs(s, p + 1, 0)

ExpandFrom(s, i, col, p) == ExpandAt(s, i, p, col + (p - i))

ExpandTabs(s, i, col) ==
    LET Special(j) == s[j] = TAB \/ s[j] = NL
    IN  ExpandFrom(s, i, col, First(i, Len(s), Special))

AllSpaces(e) == [i \in 1..Len(e) |-> IF IsSpace(e[i]) THEN SP ELSE e[i]]

\* TextWrapper._munge_whitespace: expand tabs, then every whitespace
\* character becomes a space
munge_whitespace(s) == AllSpaces(ExpandTabs(s, 1, 0))

\* the character at 0-based index i, or "" outside the string
At(s, i) == IF i >= 0 /\ i < Len(s) THEN s[i + 1] ELSE ""

\* length of the run of c starting at 0-based index i
RunLen(s, c, i) ==
    LET Other(j) == s[j] /= c
    IN  First(i + 1, Len(s), Other) - (i + 1)

\* a run of k hyphens at p that is an em-dash: (?<=[\w!"'&.,?]) -{2,} (?=\w)
EmDash(s, p, k) == k >= 2 /\ IsLetter(At(s, p - 1)) /\ IsLetter(At(s, p + k))

\* wordsep_re, second alternative at p
EmDashAt(s, p) == EmDash(s, p, RunLen(s, HY, p))

\* wordsep_re, third alternative, "hyphenated word" ending with the hyphen at e
HyphenBreakAt(s, e) ==
    /\ At(s, e) = HY
    /\ \/ IsLetter(At(s, e - 2)) /\ IsLetter(At(s, e - 1))
       \/ IsLetter(At(s, e - 3)) /\ At(s, e - 2) = HY /\ IsLetter(At(s, e - 1))
    /\ IsLetter(At(s, e + 1))
    /\ \/ At(s, e + 2) = HY /\ IsLetter(At(s, e + 3))
       \/ IsLetter(At(s, e + 2))

\* where the lazy match of the third alternative of wordsep_re stops
\* extending a chunk that has reached e (exclusive, 0-based): at the hyphen
\* of a hyphenated word, before whitespace or the end of the string, or
\* before an em-dash
WordStops(s, e) ==
    \/ HyphenBreakAt(s, e)
    \/ e = Len(s) \/ At(s, e) = SP
    \/ EmDashAt(s, e)

\* the hyphen of a hyphenated word belongs to the chunk
WordEndAt(s, e) == IF HyphenBreakAt(s, e) THEN e + 1 ELSE e

\* end (exclusive, 0-based) of the word chunk whose first character is at p
WordEnd(s, p) ==
    LET Stops(e) == WordStops(s, e)
    IN  WordEndAt(s, First(p + 1, Len(s), Stops))

ChunkEnd(s, p) ==
    IF At(s, p) = SP THEN p + RunLen(s, SP, p)
    ELSE IF At(s, p) = HY /\ EmDashAt(s, p) THEN p + RunLen(s, HY, p)
    ELSE WordEnd(s, p)

\* TextWrapper._split with break_on_hyphens: the chunks of a munged string
RECURSIVE SplitChunksFrom(_, _)
SplitChunksFrom(s, p) ==
    IF p >= Len(s) THEN <<>>
    ELSE <<Slice(s, p, ChunkEnd(s, p))>> \o SplitChunksFrom(s, ChunkEnd(s, p))

split_chunks(s) == SplitChunksFrom(s, 0)

\* how many of the chunks after the first k fit on the current line
RECURSIVE FitCount(_, _, _, _)
FitCount(chunks, k, cur_len, w) ==
    IF k < Len(chunks) /\ cur_len + Len(chunks[k + 1]) <= w
    THEN FitCount(chunks, k + 1, cur_len + Len(chunks[k + 1]), w)
    ELSE k

\* chunk.rfind('-', 0, hi): 0-based index of the last hyphen before hi, or -1
RFindHyphen(chunk, hi) ==
    LET IsHyphen(i) == chunk[i] = HY
    IN  Last(1, Min(hi, Len(chunk)), IsHyphen) - 1

\* the cut after the last hyphen that leaves room, when the chunk is longer
\* than the room and something other than hyphens precedes that hyphen
HyphenCut(chunk, space_left, hyphen) ==
    IF /\ Len(chunk) > space_left
       /\ hyphen > 0
       /\ \E i \in 1..hyphen : chunk[i] /= HY
    THEN hyphen + 1
    ELSE space_left

SpaceLeft(cur_len, w) == IF w < 1 THEN 1 ELSE w - cur_len

\* TextWrapper._handle_long_word: where the chunk that is longer than the
\* width is cut, given the length of the current line
handle_long_word(chunk, cur_len, w) ==
    HyphenCut(chunk, SpaceLeft(cur_len, w), RFindHyphen(chunk, SpaceLeft(cur_len, w)))

RECURSIVE SumLen(_, _)
SumLen(chunks, k) == IF k = 0 THEN 0 ELSE Len(chunks[k]) + SumLen(chunks, k - 1)

\* TextWrapper._wrap_chunks with drop_whitespace, no indents, no max_lines;
\* one call is one round of its outer loop
RECURSIVE wrap_chunks(_, _, _)
\* the line is appended unless it is empty
EmitLine(cur, rest, lines, w) ==
    wrap_chunks(rest, IF cur /= <<>> THEN Append(lines, Concat(cur)) ELSE lines, w)

\* a whitespace chunk at the end of the line is dropped
DropTrailing(cur, rest, lines, w) ==
    EmitLine(IF cur /= <<>> /\ IsBlank(cur[Len(cur)]) THEN SubSeq(cur, 1, Len(cur) - 1) ELSE cur,
             rest, lines, w)

\* the long chunk is cut at end: its head joins the line, its tail stays
CutLong(chunks, k, end, lines, w) ==
    DropTrailing(Append(SubSeq(chunks, 1, k), SliceTo(chunks[k + 1], end)),
                 <<SliceFrom(chunks[k + 1], end)>> \o SubSeq(chunks, k + 2, Len(chunks)),
                 lines, w)

\* after the first k chunks went on the line: a next chunk that is longer
\* than the width is cut
AfterFit(chunks, k, lines, w) ==
    IF k < Len(chunks) /\ Len(chunks[k + 1]) > w
    THEN CutLong(chunks, k, handle_long_word(chunks[k + 1], SumLen(chunks, k), w), lines, w)
    ELSE DropTrailing(SubSeq(chunks, 1, k), SubSeq(chunks, k + 1, Len(chunks)), lines, w)

FillLine(chunks, lines, w) == AfterFit(chunks, FitCount(chunks, 0, 0, w), lines, w)

wrap_chunks(chunks, lines, w) ==
    IF chunks = <<>> THEN lines
    \* a whitespace chunk at the start of a line that is not the first is dropped
    ELSE FillLine(IF IsBlank(chunks[1]) /\ lines /= <<>> THEN Tail(chunks) ELSE chunks,
                  lines, w)

\* textwrap.fill: ValueError for a width below 1, else the wrapped lines
\* joined by newlines
fill(s, w) ==
    IF w <= 0 THEN [raised |-> TRUE, s |-> <<>>]
    ELSE [raised |-> FALSE,
          s |-> Join(wrap_chunks(split_chunks(munge_whitespace(s)), <<>>, w), <<NL>>)]

-----------------------------------------------------------------------------
(* wrap_text_for_terminal *)

BoxChars == {VBAR, "u2500", "u250c", "u2510", "u2514", "u2518"}

\* the test that routes the whole text to the table path
\* the table test looking for the vertical bar only
HasTableChars_OnlyBar(t) == \E i \in 1..Len(t) : t[i] = VBAR

HasTableChars(t) == \E i \in 1..Len(t) : t[i] \in BoxChars

\* What the engine appends to wrapped_lines: s is the appended str, src the
\* input line it comes from, kind the path, tag the branch that appended it
\* ("raise": textwrap.fill raised instead of returning).
Elem(s, src, kind, tag) == [s |-> s, src |-> src, kind |-> kind, tag |-> tag]

Elems(ls, src, kind, tag) == [k \in 1..Len(ls) |-> Elem(ls[k], src, kind, tag)]

\* wrapped_lines.append(wrapped), wrapped the result r of textwrap.fill
Filled(r, line, kind) ==
    <<Elem(r.s, line, kind, IF r.raised THEN "raise" ELSE "fill")>>

\* the loop over the cell fragments of an over-length table line
RECURSIVE AssembleCells(_, _, _, _, _)
\* AddCell without the test of the assembled length: the line is never broken
AddCell_NeverBreaks(parts, i, current_line, piece, acc, w) ==
    AssembleCells(parts, i + 1, current_line \o piece, acc, w)

\* AddCell that forgets the line assembled so far when the piece does not fit
AddCell_ForgetsLine(parts, i, current_line, piece, acc, w) ==
    IF Len(current_line) + Len(piece) <= w
    THEN AssembleCells(parts, i + 1, current_line \o piece, acc, w)
    ELSE AssembleCells(parts, i + 1, piece, acc, w)

AddCell(parts, i, current_line, piece, acc, w) ==
    IF Len(current_line) + Len(piece) <= w
    THEN AssembleCells(parts, i + 1, current_line \o piece, acc, w)
    ELSE AssembleCells(parts, i + 1, piece,
                       IF current_line /= <<>> THEN Append(acc, current_line) ELSE acc, w)

\* AssembleCells without the separator put back after a fragment
AssembleCells_DropSeparator(parts, i, current_line, acc, w) ==
    IF i > Len(parts)
    THEN IF current_line /= <<>> THEN Append(acc, current_line) ELSE acc
    ELSE AddCell(parts, i, current_line, parts[i], acc, w)

AssembleCells(parts, i, current_line, acc, w) ==
    IF i > Len(parts)
    THEN IF current_line /= <<>> THEN Append(acc, current_line) ELSE acc
    ELSE AddCell(parts, i, current_line,
                 parts[i] \o (IF i < Len(parts) THEN <<VBAR>> ELSE <<>>), acc, w)

TableLine(line, w) ==
    IF Len(line) <= w THEN <<Elem(line, line, "table", "keep")>>
    ELSE IF Contains(line, VBAR)
         THEN Elems(AssembleCells(Split(line, VBAR), 1, <<>>, <<>>, w), line, "table", "cells")
    ELSE Filled(fill(line, w), line, "table")

MinContentWidth == 20

\* the classification of a paragraph as a code block
StartsCode(st) ==
    \/ StartsWith(st, <<BT, BT, BT>>)
    \/ StartsWith(st, <<SP, SP, SP, SP>>)
    \/ StartsWith(st, <<TAB>>)

IsCodeParagraph(paragraph) == StartsCode(Strip(paragraph))

\* indented_lines: the indentation back on each line of the wrapped content
Indented(r, indent_str, line) ==
    IF r.raised THEN <<Elem(<<>>, line, "code", "raise")>>
    ELSE Elems([k \in 1..Len(Split(r.s, NL)) |-> indent_str \o Split(r.s, NL)[k]],
               line, "code", "fill")

\* an over-length code line whose indentation is indent characters long
\* LongCodeLine filling also when the width left is exactly the minimum
LongCodeLine_FillsAtMinimum(line, w, indent) ==
    IF w - indent >= MinContentWidth
    THEN Indented(fill(SliceFrom(line, indent), w - indent), SliceTo(line, indent), line)
    ELSE <<Elem(SliceTo(line, w), line, "code", "cut")>>
         \o (IF Len(line) > w
             THEN <<Elem(SliceFrom(line, w), line, "code", "cutrest")>>
             ELSE <<>>)

\* LongCodeLine whose remainder starts one character late
LongCodeLine_SkipsOne(line, w, indent) ==
    IF w - indent > MinContentWidth
    THEN Indented(fill(SliceFrom(line, indent), w - indent), SliceTo(line, indent), line)
    ELSE <<Elem(SliceTo(line, w), line, "code", "cut")>>
         \o (IF Len(line) > w
             THEN <<Elem(SliceFrom(line, w + 1), line, "code", "cutrest")>>
             ELSE <<>>)

LongCodeLine(line, w, indent) ==
    IF w - indent > MinContentWidth
    THEN Indented(fill(SliceFrom(line, indent), w - indent), SliceTo(line, indent), line)
    ELSE <<Elem(SliceTo(line, w), line, "code", "cut")>>
         \o (IF Len(line) > w
             THEN <<Elem(SliceFrom(line, w), line, "code", "cutrest")>>
             ELSE <<>>)

CodeLine(line, w) ==
    IF Len(line) <= w THEN <<Elem(line, line, "code", "keep")>>
    ELSE LongCodeLine(line, w, LeadingSpace(line))

\* ProseLine without the test for whitespace-only lines
ProseLine_KeepBlank(line, w) ==
    IF Len(line) <= w THEN <<Elem(line, line, "prose", "keep")>>
    ELSE Filled(fill(line, w), line, "prose")

ProseLine(line, w) ==
    IF Len(Strip(line)) = 0 THEN <<Elem(<<>>, line, "prose", "blank")>>
    ELSE IF Len(line) <= w THEN <<Elem(line, line, "prose", "keep")>>
    ELSE Filled(fill(line, w), line, "prose")

\* wrapped_lines after the loop over the lines of a block (the whole text on
\* the table path, a paragraph otherwise)
MapLines(lines, w, kind) ==
    Concat([i \in 1..Len(lines) |->
               CASE kind = "table" -> TableLine(lines[i], w)
                 [] kind = "code" -> CodeLine(lines[i], w)
                 [] OTHER -> ProseLine(lines[i], w)])

WrappedLines(block, w, kind) == MapLines(Split(block, NL), w, kind)

\* '\n'.join(wrapped_lines)
\* JoinElems with an empty line between the lines
JoinElems_BlankBetween(es) == Join([k \in 1..Len(es) |-> es[k].s], <<NL, NL>>)

JoinElems(es) == Join([k \in 1..Len(es) |-> es[k].s], <<NL>>)

\* the value returned for the wrapped_lines of the blocks, joined by sep
Result(paras, sep) ==
    IF \E k \in 1..Len(paras) : \E j \in 1..Len(paras[k]) : paras[k][j].tag = "raise"
    THEN [raised |-> TRUE, s |-> <<>>, paras |-> <<>>]
    ELSE [raised |-> FALSE,
          s |-> Join([k \in 1..Len(paras) |-> JoinElems(paras[k])], sep),
          paras |-> paras]

TablePath(t, w) == Result(<<WrappedLines(t, w, "table")>>, <<NL>>)

\* Paragraphs with every paragraph treated as the first one is
Paragraphs_FirstDecides(ps, w) ==
    [k \in 1..Len(ps) |->
        WrappedLines(ps[k], w, IF IsCodeParagraph(ps[1]) THEN "code" ELSE "prose")]

Paragraphs(ps, w) ==
    [k \in 1..Len(ps) |->
        WrappedLines(ps[k], w, IF IsCodeParagraph(ps[k]) THEN "code" ELSE "prose")]

\* ParagraphPath joining the paragraphs by one newline
ParagraphPath_OneNewline(t, w) == Result(Paragraphs(SplitParagraphs(t), w), <<NL>>)

ParagraphPath(t, w) == Result(Paragraphs(SplitParagraphs(t), w), <<NL, NL>>)

\* wrap_text_for_terminal(text, width) once the width is known: raised, the
\* returned str s, and the wrapped_lines of each block (the table path has a
\* single block, the whole text)
wrap_text_for_terminal(t, w) ==
    IF HasTableChars(t) THEN TablePath(t, w) ELSE ParagraphPath(t, w)

-----------------------------------------------------------------------------
(* Width resolution *)

MinWidth == 50

Margin == 15

\* wrap_text_for_terminal with width=None: max(50, terminal_width - 15)
\* default_width without the floor
default_width_NoFloor(columns) == columns - Margin

default_width(columns) == Max(MinWidth, columns - Margin)

\* format_markdown_for_terminal: safe_width = max(50, terminal_width - 15)
safe_width(columns) == Max(MinWidth, columns - Margin)

-----------------------------------------------------------------------------
(* Inputs *)

MaxLen == 4

MaxWidth == 3

MaxPieces == 3

MaxTerminalWidth == 80

Rep(s, n) == Concat([k \in 1..n |-> s])

Alphabet == {"a", HY, SP, NL, BT, VBAR}

\* every text of at most MaxLen characters over Alphabet
ShortTexts == UNION {[1..n -> Alphabet] : n \in 0..MaxLen}

ShortWidths == (0 - 1)..MaxWidth

\* the building blocks of the long texts: a fence line, a paragraph break,
\* a shallow and a deep indent, a run of words, a long word, a hyphenated
\* long word, a cell separator and a tab
Pieces ==
    {<<BT, BT, BT, NL>>, <<NL, NL>>, Rep(<<SP>>, 4), Rep(<<SP>>, 32),
     Rep(Rep(<<"a">>, 10) \o <<SP>>, 5), Rep(<<"a">>, 52),
     Rep(<<"a", "a", "a", "a", HY>>, 11), <<VBAR>>, <<TAB>>}

\* every concatenation of at most MaxPieces pieces
LongTexts == {Concat(ps) : ps \in UNION {[1..n -> Pieces] : n \in 0..MaxPieces}}

LongWidths == {30, 50}

\* the inputs of the scenarios of the specification
CellScenario ==
    <<"a", SP, VBAR, SP>> \o Rep(<<"b">>, 10) \o <<SP, VBAR, SP, "c">>

\* (a line of 200 characters: the indent, 19 words of 9 and one of 6)
IndentScenario ==
    Rep(<<SP>>, 4) \o Rep(Rep(<<"x">>, 9) \o <<SP>>, 19) \o Rep(<<"x">>, 6)

BoxScenarios == {Rep(<<"a", SP>>, 3) \o <<NL, SP, NL, NL>> \o <<c>> : c \in BoxChars}

\* a fenced paragraph whose second line is indented so that the width left
\* for its content at width 30 is just above, at and just below the minimum
MinimumScenarios ==
    {<<BT, BT, BT, NL>> \o Rep(<<SP>>, k) \o Rep(Rep(<<"a">>, 10) \o <<SP>>, 5) :
        k \in (30 - MinContentWidth - 1)..(30 - MinContentWidth + 1)}

Scenarios ==
    {<<CellScenario, 10>>, <<IndentScenario, 30>>,
     <<<<BT, BT, BT, NL>> \o IndentScenario, 30>>}
    \cup {<<t, 4>> : t \in BoxScenarios}
    \cup {<<t, 30>> : t \in MinimumScenarios}

Inputs ==
    (ShortTexts \X ShortWidths) \cup (LongTexts \X LongWidths) \cup Scenarios

\* the texts of the calls that leave the width to the terminal
DefaultTexts == Pieces \cup {s[1] : s \in Scenarios}

NoResult == [raised |-> FALSE, s |-> <<>>, paras |-> <<>>]

\* no pair of texts is being compared
NoPair == A = <<>> /\ B = <<>> /\ outA = NoResult /\ outB = NoResult

NoPanel == [kind |-> "none", text |-> <<>>, width |-> 0]

\* start_chat is not running
NoChat ==
    /\ models = <<>>
    /\ selected_model = ""
    /\ conversation_history = <<>>
    /\ sanitized_history = <<>>
    /\ full_response = <<>>
    /\ stream = <<>>
    /\ live = NoPanel
    /\ past_chats = <<>>

-----------------------------------------------------------------------------
(* The calls *)

Init ==
    /\ pc = "call"
    /\ \/ /\ caller = "wrap_text_for_terminal"
          /\ \E input \in Inputs : text = input[1] /\ width = input[2]
       \/ /\ caller \in {"wrap_text_for_terminal_default", "format_markdown_for_terminal"}
          /\ text \in DefaultTexts
          /\ width = 0
    /\ terminal_width = 0
    /\ arg = <<>>
    /\ out = NoResult
    /\ out2 = NoResult
    /\ NoPair
    /\ NoChat

\* wrap_text_for_terminal(text, width): the width is given
CallWrap ==
    /\ pc = "call"
    /\ caller = "wrap_text_for_terminal"
    /\ arg' = text
    /\ pc' = "body"
    /\ UNCHANGED <<text, width, terminal_width, caller, out, out2, pairVars, chatVars>>

\* wrap_text_for_terminal(text): the width comes from the terminal
CallWrapDefault ==
    /\ pc = "call"
    /\ caller = "wrap_text_for_terminal_default"
    /\ \E columns \in 1..MaxTerminalWidth :
          /\ terminal_width' = columns
          /\ width' = default_width(columns)
    /\ arg' = text
    /\ pc' = "body"
    /\ UNCHANGED <<text, caller, out, out2, pairVars, chatVars>>

\* format_markdown_for_terminal(text) up to its call of
\* wrap_text_for_terminal(markdown_text, width=safe_width)
CallFormatMarkdown ==
    /\ pc = "call"
    /\ caller = "format_markdown_for_terminal"
    /\ \E columns \in 1..MaxTerminalWidth :
          /\ terminal_width' = columns
          /\ width' = safe_width(columns)
    /\ arg' = text
    /\ pc' = "body"
    /\ UNCHANGED <<text, caller, out, out2, pairVars, chatVars>>

Store(r) ==
    IF pc = "body"
    THEN out' = r /\ pc' = "returned" /\ out2' = out2
    ELSE out2' = r /\ pc' = "returned_again" /\ out' = out

\* the body of wrap_text_for_terminal, from the table test to the return
WrapBody ==
    /\ pc \in {"body", "body_again"}
    /\ Store(wrap_text_for_terminal(arg, width))
    /\ UNCHANGED <<text, width, terminal_width, caller, arg, pairVars, chatVars>>

\* wrap_text_for_terminal(previous result, width): the reflow of text that is
\* already reflowed (an exception of the first call leaves nothing to pass)
CallWrapAgain ==
    /\ pc = "returned"
    /\ caller = "wrap_text_for_terminal"
    /\ ~out.raised
    /\ arg' = out.s
    /\ pc' = "body_again"
    /\ UNCHANGED <<text, width, terminal_width, caller, out, out2, pairVars, chatVars>>

Next == CallWrap \/ CallWrapDefault \/ CallFormatMarkdown \/ WrapBody \/ CallWrapAgain

Spec == Init /\ [][Next]_vars

-----------------------------------------------------------------------------
(* Two texts reflowed apart and joined by a blank line *)

MaxPartLen == 2

PartAlphabet == {"a", SP, NL, BT}

\* every text of at most MaxPartLen characters over PartAlphabet
ShortParts == UNION {[1..n -> PartAlphabet] : n \in 0..MaxPartLen}

\* a run of words, plain, indented, and indented in a fenced paragraph
LongParts ==
    {Rep(Rep(<<"a">>, 10) \o <<SP>>, 5),
     Rep(<<SP>>, 4) \o Rep(Rep(<<"a">>, 10) \o <<SP>>, 5),
     <<BT, BT, BT, NL>> \o Rep(<<SP>>, 4) \o Rep(Rep(<<"a">>, 10) \o <<SP>>, 5)}

PairInputs ==
    (ShortParts \X ShortParts \X ShortWidths) \cup (LongParts \X LongParts \X {30})

PairInit ==
    /\ pc = "pair_call"
    /\ caller = "wrap_text_for_terminal"
    /\ \E input \in PairInputs :
          /\ A = input[1]
          /\ B = input[2]
          /\ width = input[3]
          /\ text = input[1] \o <<NL, NL>> \o input[2]
    /\ terminal_width = 0
    /\ arg = <<>>
    /\ out = NoResult
    /\ out2 = NoResult
    /\ outA = NoResult
    /\ outB = NoResult
    /\ NoChat

\* wrap_text_for_terminal(A, width)
CallLeft ==
    /\ pc = "pair_call"
    /\ arg' = A
    /\ pc' = "left_body"
    /\ UNCHANGED <<text, width, terminal_width, caller, out, out2, pairVars, chatVars>>

\* wrap_text_for_terminal(B, width)
CallRight ==
    /\ pc = "left_returned"
    /\ arg' = B
    /\ pc' = "right_body"
    /\ UNCHANGED <<text, width, terminal_width, caller, out, out2, pairVars, chatVars>>

\* wrap_text_for_terminal(A + "\n\n" + B, width)
CallJoined ==
    /\ pc = "right_returned"
    /\ arg' = text
    /\ pc' = "joined_body"
    /\ UNCHANGED <<text, width, terminal_width, caller, out, out2, pairVars, chatVars>>

PairStore(r) ==
    CASE pc = "left_body" -> outA' = r /\ pc' = "left_returned" /\ UNCHANGED <<outB, out>>
      [] pc = "right_body" -> outB' = r /\ pc' = "right_returned" /\ UNCHANGED <<outA, out>>
      [] OTHER -> out' = r /\ pc' = "joined_returned" /\ UNCHANGED <<outA, outB>>

\* the body of wrap_text_for_terminal, for each of the three calls
PairBody ==
    /\ pc \in {"left_body", "right_body", "joined_body"}
    /\ PairStore(wrap_text_for_terminal(arg, width))
    /\ UNCHANGED <<text, width, terminal_width, caller, arg, out2, A, B, chatVars>>

PairNext == CallLeft \/ CallRight \/ CallJoined \/ PairBody

PairSpec == PairInit /\ [][PairNext]_vars

-----------------------------------------------------------------------------
(* sanitize_conversation_history *)

ValidRoles == {"user", "assistant", "system", "tool"}

\* the role after the normalisation; the test for 'user' inside the branch
\* for roles that are not valid never succeeds
NormalRole(role) ==
    IF role \notin ValidRoles
    THEN IF role = "user" THEN "user" ELSE "assistant"
    ELSE role

\* one pass of the loop with the role assigned to the message itself
SanitizeMessage_InPlace(message) ==
    [message |-> [message EXCEPT !.role = NormalRole(message.role)],
     sanitized_message |-> [message EXCEPT !.role = NormalRole(message.role)]]

\* one pass of the loop: the message of the input list after the pass and
\* the copy that is appended
SanitizeMessage(message) ==
    [message |-> message,
     sanitized_message |-> [message EXCEPT !.role = NormalRole(message.role)]]

\* the input list after the call and the list returned
sanitize_conversation_history(history, model) ==
    [conversation_history |->
        [i \in 1..Len(history) |-> SanitizeMessage(history[i]).message],
     sanitized_history |->
        [i \in 1..Len(history) |-> SanitizeMessage(history[i]).sanitized_message]]

MaxMessages == 3

\* the four valid roles and two that are not
Roles == ValidRoles \cup {"model", "User"}

Greeting == <<"h", "i">>

Messages == {[role |-> r, content |-> Greeting] : r \in Roles}

Histories == UNION {[1..n -> Messages] : n \in 0..MaxMessages}

ModelNames == {"llama3.2", "mistral"}

SanitizeInit ==
    /\ pc = "sanitize_call"
    /\ caller = "sanitize_conversation_history"
    /\ conversation_history \in Histories
    /\ selected_model \in ModelNames
    /\ sanitized_history = <<>>
    /\ models = <<>>
    /\ full_response = <<>>
    /\ stream = <<>>
    /\ live = NoPanel
    /\ past_chats = <<>>
    /\ text = <<>>
    /\ width = 0
    /\ terminal_width = 0
    /\ arg = <<>>
    /\ out = NoResult
    /\ out2 = NoResult
    /\ NoPair

\* sanitize_conversation_history(conversation_history, selected_model)
SanitizeCall ==
    /\ pc = "sanitize_call"
    /\ LET r == sanitize_conversation_history(conversation_history, selected_model)
       IN  /\ conversation_history' = r.conversation_history
           /\ sanitized_history' = r.sanitized_history
    /\ pc' = "sanitize_returned"
    /\ UNCHANGED <<text, width, terminal_width, caller, arg, out, out2, pairVars,
                   models, selected_model, full_response, stream, live,
                   past_chats>>

SanitizeNext == SanitizeCall

SanitizeSpec == SanitizeInit /\ [][SanitizeNext]_vars

-----------------------------------------------------------------------------
(* start_chat *)

MaxTurns == 2

MaxChunks == 2

MaxSessions == 1

\* str.lower on the letters the inputs are written with
LowerChar(c) ==
    CASE c = "E" -> "e"
      [] c = "X" -> "x"
      [] c = "I" -> "i"
      [] c = "T" -> "t"
      [] c = "Y" -> "y"
      [] OTHER -> c

Lower(s) == [i \in 1..Len(s) |-> LowerChar(s[i])]

Exit == <<"e", "x", "i", "t">>

Yes == <<"y">>

No == <<"n">>

\* what `ollama list` prints, each line as the words it splits into
Header == <<"NAME", "ID", "SIZE", "MODIFIED">>

ListedModel(name) == <<name, "0a1b", "2.0", "GB", "today">>

\* the command fails, prints nothing, the header alone, the header and a
\* blank line, or the header, a blank line and a model
OllamaLists ==
    {[failed |-> TRUE, stdout |-> <<>>],
     [failed |-> FALSE, stdout |-> <<>>],
     [failed |-> FALSE, stdout |-> <<Header>>],
     [failed |-> FALSE, stdout |-> <<Header, <<>>>>],
     [failed |-> FALSE, stdout |-> <<Header, <<>>, ListedModel("llama3.2")>>]}

\* parsed_models of the lines from line on: the lines that are not blank
RECURSIVE ParsedModels(_, _)
ParsedModels(lines, line) ==
    IF line > Len(lines) THEN <<>>
    ELSE IF lines[line] = <<>> THEN ParsedModels(lines, line + 1)
    ELSE <<[name |-> lines[line][1]]>> \o ParsedModels(lines, line + 1)

\* get_available_models: the names listed after the header line, nothing
\* when the command fails
get_available_models(result) ==
    IF result.failed THEN <<>> ELSE ParsedModels(result.stdout, 2)

\* the terminal is 40 columns wide whenever its size is asked for
TerminalWidths == {40}

\* what the user may type at the model-selection prompt
Choices ==
    {Exit, <<"E", "X", "I", "T">>, <<"p", "u", "l", "l">>,
     <<"r", "e", "m", "o", "v", "e">>, <<"v", "i", "e", "w">>,
     <<"1">>, <<"2">>, <<"3">>, <<"?">>}

IsNumber(choice) == Len(choice) = 1 /\ choice[1] \in {"1", "2", "3"}

\* int(choice)
ChoiceNum(choice) == CASE choice[1] = "1" -> 1 [] choice[1] = "2" -> 2 [] OTHER -> 3

MultiStart == <<"/", "m", "u", "l", "t", "i", "-", "s", "t", "a", "r", "t">>

MultiEnd == <<"/", "m", "u", "l", "t", "i", "-", "e", "n", "d">>

\* what the user may type at the chat prompt
UserInputs == {Exit, <<"E", "x", "i", "t">>, MultiStart, Greeting}

\* the lines typed in multi-line input mode
TypedLines == {<<Greeting, <<SP>> \o MultiEnd>>}

\* get_multi_line_input: the lines before the first '/multi-end', joined
get_multi_line_input(typed) ==
    LET IsEnd(i) == Strip(typed[i]) = MultiEnd
    IN  Join(SubSeq(typed, 1, First(1, Len(typed), IsEnd) - 1), <<NL>>)

Letters == <<"a", "b", "c", "x">>

\* the content of the n-th chunk that has one: two words and their spaces
ChunkContent(n) == Rep(Rep(<<Letters[((n - 1) % 4) + 1]>>, 12) \o <<SP>>, 2)

\* the chunks the stream may yield next: without a message, with a message
\* that has no content, with a message that has content
Chunks(n) ==
    {[model |-> "m"],
     [model |-> "m", message |-> [role |-> "assistant"]],
     [model |-> "m", message |-> [role |-> "assistant", content |-> ChunkContent(n)]]}

\* number of chunks with content among the chunks
Contents(chunks) ==
    Cardinality({i \in 1..Len(chunks) :
                    "message" \in DOMAIN chunks[i] /\ "content" \in DOMAIN chunks[i].message})

\* chunk['message'].get('content', '')
ChunkText(chunk) ==
    IF "content" \in DOMAIN chunk.message THEN chunk.message.content ELSE <<>>

ThinkingPanel == [kind |-> "thinking", text |-> <<>>, width |-> 0]

ErrorPanel == [kind |-> "error", text |-> <<>>, width |-> 0]

\* format_markdown_for_terminal(markdown_text) on a terminal columns wide
format_markdown_for_terminal(markdown_text, columns) ==
    wrap_text_for_terminal(markdown_text, safe_width(columns))

ChatInit ==
    /\ pc = "main_menu"
    /\ caller = "start_chat"
    /\ NoChat
    /\ NoPair
    /\ text = <<>>
    /\ width = 0
    /\ terminal_width = 0
    /\ arg = <<>>
    /\ out = NoResult
    /\ out2 = NoResult

wrapVars == <<text, width, caller, arg, out, out2, pairVars>>

\* the top of the main loop going to the selection prompt whatever is listed
ListModels_ToSelection ==
    /\ pc = "main_menu"
    /\ \E columns \in TerminalWidths : terminal_width' = columns
    /\ \E result \in OllamaLists : models' = get_available_models(result)
    /\ pc' = "select_model"
    /\ UNCHANGED <<wrapVars, selected_model, conversation_history, sanitized_history,
                   full_response, stream, live, past_chats>>

\* the top of the main loop: the banner, the model listing, and the pull
\* page when nothing is listed
ListModels ==
    /\ pc = "main_menu"
    /\ \E columns \in TerminalWidths : terminal_width' = columns
    /\ \E result \in OllamaLists :
          /\ models' = get_available_models(result)
          /\ pc' = IF get_available_models(result) = <<>> THEN "pull_model"
                   ELSE "select_model"
    /\ UNCHANGED <<wrapVars, selected_model, conversation_history, sanitized_history,
                   full_response, stream, live, past_chats>>

\* the model-selection prompt, one answer
SelectModel ==
    /\ pc = "select_model"
    /\ \E choice \in Choices :
          CASE Lower(choice) = Exit ->
                  pc' = "done" /\ UNCHANGED <<selected_model, conversation_history>>
            [] Lower(choice) = <<"p", "u", "l", "l">> ->
                  pc' = "pull_model" /\ UNCHANGED <<selected_model, conversation_history>>
            [] Lower(choice) = <<"r", "e", "m", "o", "v", "e">> ->
                  pc' = "remove_model" /\ UNCHANGED <<selected_model, conversation_history>>
            [] Lower(choice) = <<"v", "i", "e", "w">> ->
                  pc' = "view_past_chats" /\ UNCHANGED <<selected_model, conversation_history>>
            [] IsNumber(choice) /\ ChoiceNum(choice) <= Len(models) ->
                  /\ Len(past_chats) < MaxSessions
                  /\ selected_model' = models[ChoiceNum(choice)].name
                  /\ conversation_history' = <<>>
                  /\ pc' = "chat_prompt"
            [] OTHER ->
                  pc' = "select_model" /\ UNCHANGED <<selected_model, conversation_history>>
    /\ UNCHANGED <<wrapVars, terminal_width, models, sanitized_history, full_response,
                   stream, live, past_chats>>

\* pull_model left at the model name prompt with 'exit' or nothing
PullModelExit ==
    /\ pc = "pull_model"
    /\ \E model_name \in {Exit, <<"E", "X", "I", "T">>, <<>>} :
          Lower(model_name) \in {Exit, <<>>}
    /\ pc' = "main_menu"
    /\ UNCHANGED <<wrapVars, terminal_width, chatVars>>

\* pull_model after a pull was tried: another one, or back
PullModelAnother ==
    /\ pc = "pull_model"
    /\ \E another \in {Yes, <<"Y">>, No} :
          pc' = IF Lower(another) # Yes THEN "main_menu" ELSE "pull_model"
    /\ UNCHANGED <<wrapVars, terminal_width, chatVars>>

\* remove_model returns
RemoveModel ==
    /\ pc = "remove_model"
    /\ pc' = "main_menu"
    /\ UNCHANGED <<wrapVars, terminal_width, chatVars>>

\* view_past_chats: a chat is deleted and the list shown again
DeleteChat ==
    /\ pc = "view_past_chats"
    /\ \E choice \in 1..Len(past_chats) :
          past_chats' = SubSeq(past_chats, 1, choice - 1)
                            \o SubSeq(past_chats, choice + 1, Len(past_chats))
    /\ pc' = "view_past_chats"
    /\ UNCHANGED <<wrapVars, terminal_width, models, selected_model, conversation_history,
                   sanitized_history, full_response, stream, live>>

\* view_past_chats returns
ViewPastChats ==
    /\ pc = "view_past_chats"
    /\ pc' = "main_menu"
    /\ UNCHANGED <<wrapVars, terminal_width, chatVars>>

\* the chat prompt answered with 'exit'
ChatExit ==
    /\ pc = "chat_prompt"
    /\ \E user_input \in UserInputs : Lower(user_input) = Exit
    /\ pc' = "save_chat_session"
    /\ UNCHANGED <<wrapVars, terminal_width, chatVars>>

\* the history without the user's message
UserMessage_Unsent(history, content) == history

\* the user's message in the history

UserMessage(history, content) == Append(history, [role |-> "user", content |-> content])

\* the chat prompt answered with a message: it is appended, the history is
\* sanitized, the buffer emptied and the panel shows "Thinking..."
ChatPrompt ==
    /\ pc = "chat_prompt"
    /\ Len(conversation_history) < 2 * MaxTurns
    /\ \E user_input \in UserInputs, typed \in TypedLines :
          /\ Lower(user_input) # Exit
          /\ LET content == IF user_input = MultiStart THEN get_multi_line_input(typed)
                            ELSE user_input
                 r == sanitize_conversation_history(
                          UserMessage(conversation_history, content), selected_model)
             IN  /\ conversation_history' = r.conversation_history
                 /\ sanitized_history' = r.sanitized_history
    /\ full_response' = <<>>
    /\ stream' = <<>>
    /\ live' = ThinkingPanel
    /\ pc' = "streaming"
    /\ UNCHANGED <<wrapVars, terminal_width, models, selected_model, past_chats>>

\* the except branch with the history kept
ChatError_KeepHistory ==
    /\ live' = ErrorPanel
    /\ UNCHANGED conversation_history
    /\ pc' = "save_chat_session"

\* the except branch: the error panel, the history reset, the chat loop left
ChatError ==
    /\ live' = ErrorPanel
    /\ conversation_history' = <<>>
    /\ pc' = "save_chat_session"

\* full_response += chunk_content
Accumulate(buffer, chunk_content) == buffer \o chunk_content

\* the panel with the content of the last chunk alone, as it came
ResponsePanel_LastChunk(buffer, chunk_content, shown, panel_width) ==
    [kind |-> "response", text |-> chunk_content, width |-> panel_width]

\* the panel for the response so far: shown is the whole buffer reflowed
ResponsePanel(buffer, chunk_content, shown, panel_width) ==
    [kind |-> "response", text |-> shown, width |-> panel_width]

\* one chunk of the stream: a chunk with a message is added to the buffer
\* and the panel is rebuilt from the whole buffer; stream keeps the chunks
\* of the reply while it lasts
StreamChunk ==
    /\ pc = "streaming"
    /\ Len(stream) < MaxChunks
    /\ \E chunk \in Chunks(Contents(stream) + 1) :
          /\ stream' = Append(stream, chunk)
          /\ IF "message" \in DOMAIN chunk
             THEN \E columns \in TerminalWidths, safe_columns \in TerminalWidths :
                     LET buffer == Accumulate(full_response, ChunkText(chunk))
                         r == format_markdown_for_terminal(buffer, safe_columns)
                     IN  /\ full_response' = buffer
                         /\ terminal_width' = columns
                         /\ IF r.raised
                            THEN ChatError
                            ELSE /\ live' = ResponsePanel(buffer, ChunkText(chunk), r.s,
                                                          Min(columns - 4, 120))
                                 /\ pc' = "streaming"
                                 /\ UNCHANGED conversation_history
             ELSE UNCHANGED <<full_response, terminal_width, live, pc, conversation_history>>
    /\ UNCHANGED <<wrapVars, models, selected_model, sanitized_history, past_chats>>

\* ollama.chat or the stream raises; the stream is gone
StreamError ==
    /\ pc = "streaming"
    /\ ChatError
    /\ stream' = <<>>
    /\ UNCHANGED <<wrapVars, terminal_width, models, selected_model, sanitized_history,
                   full_response, past_chats>>

\* the reply in the history
AssistantMessage(history, content) ==
    Append(history, [role |-> "assistant", content |-> content])

\* the stream is exhausted: the buffer is appended as the assistant's message
StreamEnd ==
    /\ pc = "streaming"
    /\ conversation_history' = AssistantMessage(conversation_history, full_response)
    /\ stream' = <<>>
    /\ pc' = "chat_prompt"
    /\ UNCHANGED <<wrapVars, terminal_width, models, selected_model, sanitized_history,
                   full_response, live, past_chats>>

\* the name typed for a session: nothing, which gives the date and time
CustomNames == {<<>>}

Timestamp == <<"2", "0", "2", "5">>

\* the session that save_chat_session stores
Session(custom_name, conversation) ==
    [name |-> IF Strip(custom_name) = <<>> THEN Timestamp ELSE custom_name,
     timestamp |-> Timestamp,
     conversation |-> conversation]

\* save_chat_session(conversation_history)
SaveChatSession ==
    /\ pc = "save_chat_session"
    /\ \E save \in {Yes, <<"Y">>, No} :
          IF Lower(save) = Yes
          THEN \E custom_name \in CustomNames :
                  past_chats' = Append(past_chats, Session(custom_name, conversation_history))
          ELSE UNCHANGED past_chats
    /\ pc' = "return_to_menu"
    /\ UNCHANGED <<wrapVars, terminal_width, models, selected_model, conversation_history,
                   sanitized_history, full_response, stream, live>>

\* "Would you like to return to the main menu?", one answer
ReturnToMenu ==
    /\ pc = "return_to_menu"
    /\ \E choice \in {Yes, <<"Y">>, No, <<"?">>} :
          pc' = CASE Lower(choice) = No -> "done"
                  [] Lower(choice) = Yes -> "main_menu"
                  [] OTHER -> "return_to_menu"
    /\ UNCHANGED <<wrapVars, terminal_width, chatVars>>

ChatNext ==
    \/ ListModels
    \/ SelectModel
    \/ PullModelExit
    \/ PullModelAnother
    \/ RemoveModel
    \/ DeleteChat
    \/ ViewPastChats
    \/ ChatExit
    \/ ChatPrompt
    \/ StreamChunk
    \/ StreamError
    \/ StreamEnd
    \/ SaveChatSession
    \/ ReturnToMenu

ChatSpec == ChatInit /\ [][ChatNext]_vars

-----------------------------------------------------------------------------
(* Properties *)

\* the first call has returned or raised: out is its outcome for text, width
Returned == pc = "returned"

\* the call on the first call's result has ended too: out2 is its outcome
ReturnedAgain == pc = "returned_again"

\* no line of t is longer than w
NoLongLine(t, w) == \A i \in 1..Len(Split(t, NL)) : Len(Split(t, NL)[i]) <= w

\* t holds a box-drawing character
HasBox(t) == \E i \in 1..Len(t) : t[i] \in BoxChars

\* a line of t is whitespace-only without being empty
HasBlankLine(t) ==
    \E i \in 1..Len(Split(t, NL)) : Split(t, NL)[i] /= <<>> /\ IsBlank(Split(t, NL)[i])

\* the paragraph begins, after stripping, with a fence
Fenced(p) == StartsWith(Strip(p), <<BT, BT, BT>>)

\* the raw first line of the paragraph begins with a space or a tab
FirstLineIndented(p) == p /= <<>> /\ p[1] \in {SP, TAB}

\* everything the call appended to wrapped_lines, over all its blocks
AllElems(r) == Concat(r.paras)

IsSubstring(s, t) == \E i \in 0..(Len(t) - Len(s)) : SubSeq(t, i + 1, i + Len(s)) = s

IsSuffix(s, t) == Len(s) <= Len(t) /\ SubSeq(t, Len(t) - Len(s) + 1, Len(t)) = s

\* number of occurrences of c in s
Count(s, c) == Cardinality({i \in 1..Len(s) : s[i] = c})

-----------------------------------------------------------------------------
(* C1 *)

BlankedLine(line) == IF IsBlank(line) THEN <<>> ELSE line

\* the paragraph with each whitespace-only line emptied
BlankedParagraph(p) ==
    Join([i \in 1..Len(Split(p, NL)) |-> BlankedLine(Split(p, NL)[i])], <<NL>>)

BlankedProse(ps) ==
    Join([k \in 1..Len(ps) |-> IF Fenced(ps[k]) THEN ps[k] ELSE BlankedParagraph(ps[k])],
         <<NL, NL>>)

\* t with the whitespace-only lines emptied in every paragraph that does not
\* begin with a fence; t itself when it holds a box-drawing character
ExceptBlankLines(t) == IF HasBox(t) THEN t ELSE BlankedProse(SplitParagraphs(t))

\* C1, as stated: when no line of the text is longer than width,
\* wrap_text_for_terminal(text, width) returns the text exactly, blank-line
\* separators and whitespace-only lines included, on all three paths.
C1_ReturnsTextExactly ==
    Returned /\ NoLongLine(text, width) => ~out.raised /\ out.s = text

\* C1, amended: when no line of the text is longer than width, the call
\* returns the text exactly except that, in text without box-drawing
\* characters, every whitespace-only line of a paragraph that does not begin
\* with a fence comes back as an empty line.
C1_ReturnsTextExceptBlankLines ==
    Returned /\ NoLongLine(text, width) => ~out.raised /\ out.s = ExceptBlankLines(text)

\* a returned call on text within width that holds a paragraph separator and
\* a whitespace-only line the prose path has emptied
C1_Witness ==
    /\ Returned
    /\ NoLongLine(text, width)
    /\ IsSubstring(<<NL, NL>>, text)
    /\ HasBlankLine(text)
    /\ ~out.raised
    /\ out.s /= text

-----------------------------------------------------------------------------
(* C2 *)

\* s holds no separator before its last character: it is one cell fragment,
\* with its separator or without
SingleFragment(s) == \A i \in 1..(Len(s) - 1) : s[i] /= VBAR

\* what the hard-cut branch of the code path appended
HardCut(e) == e.tag \in {"cut", "cutrest"}

\* C2, as stated: for width >= 50 every line of the result is at most width
\* long, except the lines of the hard-cut branch of the code path; no line of
\* the table path or of the prose path is longer than width.
C2_LinesWithinWidth ==
    Returned /\ width >= 50 =>
        /\ ~out.raised
        /\ \A j \in 1..Len(AllElems(out)) :
              HardCut(AllElems(out)[j]) \/ NoLongLine(AllElems(out)[j].s, width)

\* C2, amended: for width >= 50 every line of the result is at most width
\* long, except the lines of the hard-cut branch of the code path and, on the
\* table path, a line that is a single cell fragment (with its separator)
\* which is itself longer than width.
C2_LinesWithinWidthExceptFragments ==
    Returned /\ width >= 50 =>
        /\ ~out.raised
        /\ \A j \in 1..Len(AllElems(out)) :
              \/ HardCut(AllElems(out)[j])
              \/ AllElems(out)[j].tag = "cells" /\ SingleFragment(AllElems(out)[j].s)
              \/ NoLongLine(AllElems(out)[j].s, width)

\* a returned call at a width of at least 50 that word-filled an over-length
\* line into several lines
C2_Witness ==
    /\ Returned
    /\ width >= 50
    /\ \E j \in 1..Len(AllElems(out)) :
          /\ AllElems(out)[j].tag = "fill"
          /\ Len(AllElems(out)[j].src) > width
          /\ Contains(AllElems(out)[j].s, NL)

-----------------------------------------------------------------------------
(* C3 *)

\* C3, as stated: wrap_text_for_terminal never raises, for any text and any
\* integer width, width 0 and negative widths included.
C3_NeverRaises == ~out.raised /\ ~out2.raised

-----------------------------------------------------------------------------
(* C4 *)

\* C4, as stated: for text without box-drawing characters and every width,
\* reflowing the result of a reflow returns that result, also after the code
\* hard-cut branch and after whitespace-only lines were emptied.
C4_Idempotent ==
    ReturnedAgain /\ ~HasBox(text) => ~out2.raised /\ out2.s = out.s

\* a whitespace-only line that is not empty, in a paragraph of t that does
\* not begin with a fence
HasBlankProseLine(t) == BlankedProse(SplitParagraphs(t)) /= t

\* C4, amended: for text without box-drawing characters, whenever the
\* result of the reflow has no line longer than the width (no hard cut left a
\* piece longer than the width) and no whitespace-only line that is not empty
\* in a prose paragraph (no word-fill began with a whitespace-only line),
\* reflowing that result returns it unchanged.
C4_IdempotentWithinWidth ==
    ReturnedAgain /\ ~HasBox(text) /\ NoLongLine(out.s, width) /\ ~HasBlankProseLine(out.s)
        => ~out2.raised /\ out2.s = out.s

\* both calls returned, the first having word-filled an over-length line of a
\* text with a whitespace-only line into a result within width
C4_Witness ==
    /\ ReturnedAgain
    /\ ~HasBox(text)
    /\ HasBlankLine(text)
    /\ NoLongLine(out.s, width)
    /\ ~HasBlankProseLine(out.s)
    /\ \E j \in 1..Len(AllElems(out)) :
          AllElems(out)[j].tag = "fill" /\ Contains(AllElems(out)[j].s, NL)
    /\ out2.s = out.s

-----------------------------------------------------------------------------
(* C5 *)

\* the lines of the result that come from the element e
OutLines(e) == Split(e.s, NL)

\* the leading whitespace of the input line the element e comes from
Prefix(e) == SliceTo(e.src, LeadingSpace(e.src))

\* e comes from an over-length line whose indentation leaves a usable width
LongIndented(e, w) ==
    /\ Len(e.src) > w
    /\ LeadingSpace(e.src) > 0
    /\ w - LeadingSpace(e.src) > MinContentWidth

\* C5, as stated: a paragraph (of text without box-drawing characters) whose
\* raw first line begins with a space or a tab is handled as code: the
\* leading whitespace of an over-length line of it is a prefix of every output
\* line of that line, not only of the first.
C5_IndentedParagraphIsCode ==
    Returned /\ ~HasBox(text) /\ ~out.raised =>
        \A k \in 1..Len(out.paras) :
            FirstLineIndented(SplitParagraphs(text)[k]) =>
                \A j \in 1..Len(out.paras[k]) :
                    /\ out.paras[k][j].kind = "code"
                    /\ LongIndented(out.paras[k][j], width) =>
                          \A i \in 1..Len(OutLines(out.paras[k][j])) :
                              StartsWith(OutLines(out.paras[k][j])[i], Prefix(out.paras[k][j]))

-----------------------------------------------------------------------------
(* C6 *)

\* the line e of the result is cut out of its input line at separators: it
\* is a piece of the input line, characters and spacing unchanged, that ends
\* with a separator or with the input line
CutAtSeparator(e) ==
    /\ e.s /= <<>>
    /\ IsSubstring(e.s, e.src)
    /\ e.s[Len(e.s)] = VBAR \/ IsSuffix(e.s, e.src)

\* C6: text that holds a box-drawing character anywhere goes through the
\* table path as a whole: it is one block (no paragraph splitting, no code or
\* prose handling of any part), a line within width is emitted unchanged, a
\* whitespace-only line included, and an over-length line with a vertical bar
\* is cut at separators, not word-filled.
C6_TablePath ==
    Returned /\ HasBox(text) /\ ~out.raised =>
        /\ Len(out.paras) = 1
        /\ \A j \in 1..Len(AllElems(out)) :
              /\ AllElems(out)[j].kind = "table"
              /\ Len(AllElems(out)[j].src) <= width =>
                    AllElems(out)[j].tag = "keep" /\ AllElems(out)[j].s = AllElems(out)[j].src
              /\ Len(AllElems(out)[j].src) > width /\ Contains(AllElems(out)[j].src, VBAR) =>
                    AllElems(out)[j].tag = "cells" /\ CutAtSeparator(AllElems(out)[j])
        /\ NoLongLine(text, width) => out.s = text

\* a returned call on text that is prose but for one box-drawing character
\* other than the vertical bar, with a paragraph separator and a
\* whitespace-only line, which the result keeps
C6_Witness ==
    /\ Returned
    /\ HasBox(text)
    /\ ~Contains(text, VBAR)
    /\ IsSubstring(<<NL, NL>>, text)
    /\ HasBlankLine(text)
    /\ ~out.raised
    /\ HasBlankLine(out.s)
    /\ Len(out.paras) = 1

-----------------------------------------------------------------------------
(* C7 *)

\* what the loop over the cell fragments appended
Cells(r) == SelectSeq(AllElems(r), LAMBDA e : e.tag = "cells")

\* C7, as stated: an over-length line with a vertical bar is split on the bar
\* and reassembled so that no assembled line is longer than width, every
\* separator retained; "a | bbbbbbbbbb | c" at width 10 gives several lines
\* of at most 10 characters.
C7_CellLinesWithinWidth ==
    Returned /\ ~out.raised =>
        /\ \A j \in 1..Len(Cells(out)) : Len(Cells(out)[j].s) <= width
        /\ Count(out.s, VBAR) = Count(text, VBAR)
        /\ text = CellScenario /\ width = 10 => Len(Cells(out)) > 1

\* C7, amended: no assembled line is longer than width unless it is a single
\* fragment (with its separator) that is itself longer than width, every
\* separator is retained, and "a | bbbbbbbbbb | c" at width 10 gives the
\* three lines "a |", " bbbbbbbbbb |" (13 characters) and " c".
C7_CellLinesWithinWidthOrSingle ==
    Returned /\ ~out.raised =>
        /\ \A j \in 1..Len(Cells(out)) :
              Len(Cells(out)[j].s) <= width \/ SingleFragment(Cells(out)[j].s)
        /\ Count(out.s, VBAR) = Count(text, VBAR)
        /\ text = CellScenario /\ width = 10 =>
              out.s = <<"a", SP, VBAR, NL, SP>> \o Rep(<<"b">>, 10) \o <<SP, VBAR, NL, SP, "c">>

\* the returned call on "a | bbbbbbbbbb | c" at width 10, split into three lines
C7_Witness ==
    /\ Returned
    /\ text = CellScenario
    /\ width = 10
    /\ Len(Cells(out)) = 3

-----------------------------------------------------------------------------
(* C8 *)

\* the lines of the content after the prefix of e's input line, word-filled
\* to the width less the prefix
FilledContent(e, w) ==
    Split(fill(SliceFrom(e.src, LeadingSpace(e.src)), w - LeadingSpace(e.src)).s, NL)

\* the lines of the result that come from the input line src of a block
LinesFrom(es, src) ==
    UNION {{OutLines(es[j])[i] : i \in 1..Len(OutLines(es[j]))} :
              j \in {j \in 1..Len(es) : es[j].src = src}}

\* the lines are the content lines, each after the prefix, none longer than w
FilledWithPrefix(lines, prefix, content, w) ==
    /\ lines = {prefix \o content[i] : i \in 1..Len(content)}
    /\ \A l \in lines : Len(l) <= w

\* the paragraph is code as the heuristic is described: fenced, or its raw
\* first line indented
DescribedAsCode(p) == Fenced(p) \/ FirstLineIndented(p)

\* C8, as stated: an over-length indented code line whose prefix of k
\* characters leaves a usable width has its content word-filled to width - k
\* columns, every output line of it starting with the prefix and at most
\* width long; the 200-character line with a 4-space indent at width 30 is
\* filled to 26 columns, each line prefixed with 4 spaces.
C8_IndentedLineFilled ==
    Returned /\ ~HasBox(text) /\ ~out.raised =>
        \A k \in 1..Len(out.paras) :
            DescribedAsCode(SplitParagraphs(text)[k]) =>
                \A j \in 1..Len(out.paras[k]) :
                    LongIndented(out.paras[k][j], width) =>
                        FilledWithPrefix(LinesFrom(out.paras[k], out.paras[k][j].src),
                                         Prefix(out.paras[k][j]),
                                         FilledContent(out.paras[k][j], width), width)

-----------------------------------------------------------------------------
(* C9 *)

\* C9: when the width is not supplied, the width the body runs with is
\* max(50, columns - 15) for every column count of the terminal: 50 for a
\* terminal of 40 columns, never below 50; format_markdown_for_terminal passes
\* the same value.
C9_DefaultWidth ==
    pc /= "call" /\ caller \in {"wrap_text_for_terminal_default", "format_markdown_for_terminal"} =>
        /\ width = (IF terminal_width - 15 > 50 THEN terminal_width - 15 ELSE 50)
        /\ width >= 50
        /\ terminal_width = 40 => width = 50

\* a call without a width on a terminal of 40 columns has returned
C9_Witness ==
    /\ Returned
    /\ caller = "wrap_text_for_terminal_default"
    /\ terminal_width = 40
    /\ width = 50

-----------------------------------------------------------------------------
(* C10 *)

\* every cell fragment of the line, with its separator, is at most w long
FragmentsFit(line, w) ==
    \A i \in 1..Len(Split(line, VBAR)) :
        Len(Split(line, VBAR)[i]) + (IF i < Len(Split(line, VBAR)) THEN 1 ELSE 0) <= w

AllFragmentsFit(t, w) ==
    \A i \in 1..Len(Split(t, NL)) : FragmentsFit(Split(t, NL)[i], w)

\* C10: for text with a box-drawing character in which every cell fragment
\* with its trailing separator fits within the width, reflowing the result of
\* a reflow returns that result.
C10_TableIdempotent ==
    ReturnedAgain /\ HasBox(text) /\ AllFragmentsFit(text, width) =>
        ~out2.raised /\ out2.s = out.s

\* both calls returned on table text whose fragments fit, the first having
\* split an over-length line
C10_Witness ==
    /\ ReturnedAgain
    /\ HasBox(text)
    /\ AllFragmentsFit(text, width)
    /\ Len(Cells(out)) > 1
    /\ out.s /= text
    /\ out2.s = out.s

-----------------------------------------------------------------------------
(* C11 *)

\* what the code path appended for its over-length lines
LongCode(r, w) == SelectSeq(AllElems(r), LAMBDA e : e.kind = "code" /\ Len(e.src) > w)

\* e is a line of word-filled content after the prefix of its input line
FilledAfterPrefix(e) == e.tag = "fill" /\ StartsWith(e.s, Prefix(e))

-----------------------------------------------------------------------------
(* C12 *)

\* the element at j is the first piece of a hard cut of its input line at w
\* and the next element is the rest of the line
CutInTwo(es, j, w) ==
    /\ j < Len(es)
    /\ es[j + 1].tag = "cutrest"
    /\ es[j + 1].src = es[j].src
    /\ es[j].s = SubSeq(es[j].src, 1, w)
    /\ es[j + 1].s = SubSeq(es[j].src, w + 1, Len(es[j].src))
    /\ es[j].s \o es[j + 1].s = es[j].src

\* C12: at a width of at least 1 the hard-cut branch emits exactly two lines
\* for an over-length line: its first width characters, then all the
\* remaining characters, however many; together they are the line.
C12_HardCutInTwo ==
    Returned /\ width >= 1 =>
        \A k \in 1..Len(out.paras) :
            \A j \in 1..Len(out.paras[k]) :
                /\ out.paras[k][j].tag = "cut" => CutInTwo(out.paras[k], j, width)
                /\ out.paras[k][j].tag = "cutrest" => j > 1 /\ out.paras[k][j - 1].tag = "cut"

\* a returned call at a width of at least 1 whose hard cut left a remainder
\* longer than the width
C12_Witness ==
    /\ Returned
    /\ width >= 1
    /\ \E j \in 1..Len(AllElems(out)) :
          AllElems(out)[j].tag = "cutrest" /\ Len(AllElems(out)[j].s) > width

-----------------------------------------------------------------------------
(* C15 *)

\* the lines the cell loop emitted for the input line, end to end
CellsOfLine(r, line) ==
    Concat([j \in 1..Len(SelectSeq(Cells(r), LAMBDA e : e.src = line)) |->
               SelectSeq(Cells(r), LAMBDA e : e.src = line)[j].s])

\* how many lines of t are this line
Occurrences(t, line) == Cardinality({i \in 1..Len(Split(t, NL)) : Split(t, NL)[i] = line})

\* C15: on the table path the split of an over-length line with a vertical
\* bar loses, adds and reorders nothing: the lines emitted for it, put end to
\* end, are the line, with as many vertical bars.
C15_SplitKeepsCharacters ==
    Returned /\ HasBox(text) /\ ~out.raised =>
        \A i \in 1..Len(Split(text, NL)) :
            Len(Split(text, NL)[i]) > width /\ Contains(Split(text, NL)[i], VBAR) =>
                /\ CellsOfLine(out, Split(text, NL)[i]) =
                      Rep(Split(text, NL)[i], Occurrences(text, Split(text, NL)[i]))
                /\ Count(CellsOfLine(out, Split(text, NL)[i]), VBAR) =
                      Occurrences(text, Split(text, NL)[i]) * Count(Split(text, NL)[i], VBAR)

\* a returned call on table text one line of which came out as several lines
\* and another as a single fragment
C15_Witness ==
    /\ Returned
    /\ HasBox(text)
    /\ Len(Cells(out)) > 2
    /\ \E i \in 1..Len(Split(text, NL)) :
          /\ Len(Split(text, NL)[i]) > width
          /\ Count(Split(text, NL)[i], VBAR) > 1
          /\ CellsOfLine(out, Split(text, NL)[i]) = Split(text, NL)[i]

-----------------------------------------------------------------------------
(* C16 *)

\* the three calls on A, B and A + "\n\n" + B have ended
PairReturned == pc = "joined_returned"

\* A and B have no box-drawing character, A does not end with a newline and
\* B does not start with one
Separable(l, r) ==
    /\ ~HasBox(l)
    /\ ~HasBox(r)
    /\ (l = <<>> \/ l[Len(l)] # NL)
    /\ (r = <<>> \/ r[1] # NL)

\* C16: for texts A and B without box-drawing characters, A not ending with
\* a newline and B not starting with one, reflowing A + "\n\n" + B raises
\* exactly when reflowing A or B does, and otherwise returns the reflow of A,
\* a blank line and the reflow of B, with at least as many
\* blank-line-separated paragraphs as the text
C16_ParagraphsIndependent ==
    (PairReturned /\ Separable(A, B)) =>
        /\ out.raised <=> (outA.raised \/ outB.raised)
        /\ ~out.raised =>
              /\ out.s = outA.s \o <<NL, NL>> \o outB.s
              /\ Len(SplitParagraphs(out.s)) >= Len(SplitParagraphs(text))

\* the three calls returned on a code paragraph and a prose paragraph, both
\* with a line that was filled
C16_Witness ==
    /\ PairReturned
    /\ Separable(A, B)
    /\ ~out.raised
    /\ IsCodeParagraph(A)
    /\ ~IsCodeParagraph(B)
    /\ Len(Split(outA.s, NL)) > Len(Split(A, NL))
    /\ Len(Split(outB.s, NL)) > Len(Split(B, NL))
    /\ out.s = outA.s \o <<NL, NL>> \o outB.s

-----------------------------------------------------------------------------
(* C14 *)

\* message b is message a with at most the role changed
SameButRole(a, b) ==
    /\ DOMAIN a = DOMAIN b
    /\ \A f \in DOMAIN a \ {"role"} : a[f] = b[f]

-----------------------------------------------------------------------------
(* C13 *)

\* the content of the chunks that carry a message, in the order they came;
\* a message without content counts as the empty string
Received(chunks) ==
    Concat([i \in 1..Len(chunks) |->
               IF "message" \in DOMAIN chunks[i] /\ "content" \in DOMAIN chunks[i].message
               THEN chunks[i].message.content
               ELSE <<>>])

HasMessage(chunks) == \E i \in 1..Len(chunks) : "message" \in DOMAIN chunks[i]

IsPrefix(s, t) == Len(s) <= Len(t) /\ SubSeq(t, 1, Len(s)) = s

\* the panel shows the reflow of s, at the 50 columns that a terminal of 40
\* gives
ShowsReflowOf(s) ==
    /\ live.kind = "response"
    /\ live.text = wrap_text_for_terminal(s, 50).s

\* C13: while a reply is streamed the buffer is the concatenation of the
\* content of the message chunks received so far, in arrival order, and once
\* a chunk with a message has come the panel shows the reflow of the whole
\* buffer; the buffer only grows by appending, and when the stream ends
\* without error the assistant message appended to the history is the buffer
C13_PanelShowsBuffer ==
    /\ [](pc = "streaming" =>
            /\ full_response = Received(stream)
            /\ HasMessage(stream) => ShowsReflowOf(full_response))
    /\ [][/\ (pc = "streaming" /\ pc' = "streaming") => IsPrefix(full_response, full_response')
          /\ (pc = "streaming" /\ pc' = "chat_prompt") =>
                /\ Len(conversation_history') = Len(conversation_history) + 1
                /\ SubSeq(conversation_history', 1, Len(conversation_history))
                      = conversation_history
                /\ conversation_history'[Len(conversation_history')]
                      = [role |-> "assistant", content |-> full_response]
                /\ full_response = Received(stream)]_vars

\* two chunks with content came, and the panel shows the two together on
\* more lines than the buffer has
C13_Witness ==
    /\ pc = "streaming"
    /\ Len(stream) = 2
    /\ \A i \in 1..2 :
          "message" \in DOMAIN stream[i] /\ "content" \in DOMAIN stream[i].message
    /\ full_response = stream[1].message.content \o stream[2].message.content
    /\ stream[1].message.content # stream[2].message.content
    /\ ShowsReflowOf(full_response)
    /\ Len(Split(live.text, NL)) > Len(Split(full_response, NL))

-----------------------------------------------------------------------------
(* C17 *)

\* user, assistant, user, assistant, ... starting with a user message
Alternates(history) ==
    \A i \in 1..Len(history) :
        history[i].role = IF i % 2 = 1 THEN "user" ELSE "assistant"

\* C17: whenever the user is prompted for input in a chat session the
\* history has even length and alternates user, assistant from a user
\* message on; the conversation handed to save_chat_session is empty or such
\* a list ending with an assistant message
C17_HistoryAlternates ==
    /\ pc = "chat_prompt" =>
          Len(conversation_history) % 2 = 0 /\ Alternates(conversation_history)
    /\ pc = "save_chat_session" =>
          \/ conversation_history = <<>>
          \/ /\ Alternates(conversation_history)
             /\ conversation_history[Len(conversation_history)].role = "assistant"

\* a session of two turns is handed to save_chat_session
C17_Witness ==
    /\ pc = "save_chat_session"
    /\ Len(conversation_history) = 4
    /\ conversation_history[3].role = "user"
    /\ conversation_history[4].role = "assistant"

-----------------------------------------------------------------------------
(* C18 *)

\* the step is the except branch: the error panel replaces the response
Raises == pc = "streaming" /\ live'.kind = "error"

\* C18: when the streaming call raises, the chat loop ends with the whole
\* history of the session emptied and no assistant message appended, so that
\* save_chat_session is called with the empty list, and the session it
\* stores on 'y' has no messages
C18_ErrorDiscardsHistory ==
    /\ [][Raises => (conversation_history' = <<>> /\ pc' = "save_chat_session")]_vars
    /\ []((pc = "save_chat_session" /\ live.kind = "error") => conversation_history = <<>>)
    /\ [][(pc = "save_chat_session" /\ live.kind = "error"
              /\ Len(past_chats') > Len(past_chats)) =>
             past_chats'[Len(past_chats')].conversation = <<>>]_vars

\* the stream raised in the second turn of a session, after a first turn
\* that was answered, and the session was stored
C18_Witness ==
    /\ pc = "return_to_menu"
    /\ live.kind = "error"
    /\ Len(sanitized_history) = 3
    /\ sanitized_history[2].role = "assistant"
    /\ conversation_history = <<>>
    /\ past_chats # <<>>
    /\ past_chats[Len(past_chats)].conversation = <<>>

-----------------------------------------------------------------------------
(* C19 *)

\* C19: while the listing is empty start_chat is at the top of its main loop
\* or in pull_model, never at the model-selection prompt, in remove_model,
\* in view_past_chats, in a chat or terminated; an empty listing leads into
\* pull_model, and pull_model, left with 'exit' or otherwise, leads back to
\* the top of the loop and its next listing
C19_NoModelsNoMenu ==
    /\ [](models = <<>> => pc \in {"main_menu", "pull_model"})
    /\ [](pc \in {"select_model", "done"} => Len(models) >= 1)
    /\ [][(pc = "main_menu" /\ models' = <<>>) => pc' = "pull_model"]_vars
    /\ [][(pc = "pull_model" /\ pc' # "pull_model") =>
             (pc' = "main_menu" /\ models' = models)]_vars

\* nothing is listed and the pull page is open
C19_Witness ==
    /\ pc = "pull_model"
    /\ models = <<>>
    /\ terminal_width > 0

====
